---- MODULE Spec2Model ----
(***************************************************************************)
(* Model of CCDMultiTrack (ADApp/ADSrc/CCDMultiTrack.cpp): the three       *)
(* stored vectors mTrackStart, mTrackEnd, mTrackBin and the three writers  *)
(* writeTrackStart, writeTrackEnd, writeTrackBin.                          *)
(*                                                                         *)
(* C++ vectors are 0-based; the sequences here are 1-based, so the code's  *)
(* TrackNum corresponds to index TrackNum + 1 below.                       *)
(*                                                                         *)
(* The inline accessors TrackStart(i), TrackEnd(i), TrackHeight(i),        *)
(* TrackBin(i), DataHeight(i) and size() live in CCDMultiTrack.h, which is *)
(* not among the sources; they are modelled from the design document.      *)
(*                                                                         *)
(* A callback is issued as doCallbacksInt32Array(&(v[0]), v.size(), ...).  *)
(* When v is empty, v[0] is an out-of-range operator[]: undefined          *)
(* behaviour.  Builds without library assertions deliver the notification  *)
(* with an empty array and go on; builds with _GLIBCXX_ASSERTIONS abort    *)
(* the process inside operator[], before the callback is entered.  Both    *)
(* outcomes are steps of the model; aborted records the second one, after  *)
(* which nothing happens any more.  last.ok says that the validating loop  *)
(* did not throw (the write was accepted); an accepted call has returned   *)
(* normally when last.ok /\ ~aborted.                                      *)
(***************************************************************************)
EXTENDS Integers, Sequences, FiniteSets

VARIABLES mTrackStart, mTrackEnd, mTrackBin, last, notes, calls, aborted

vars == <<mTrackStart, mTrackEnd, mTrackBin, last, notes, calls, aborted>>

\* ---- bounds of the model ----
MaxLen == 2
MaxVal == 3
\* the number of writes followed from construction
MaxCalls == 3

\* the arrays a caller may pass: every length 0..MaxLen, every value 0..MaxVal
Inputs == UNION {[1..n -> 0..MaxVal] : n \in 0..MaxLen}

\* ---- C integer arithmetic (truncating), for operands of either sign ----
Abs(a) == IF a < 0 THEN -a ELSE a

\* a % b in C, b # 0: the result has the sign of the dividend
CRem(a, b) == IF a >= 0 THEN a % Abs(b) ELSE -((-a) % Abs(b))

\* a / b in C, b # 0: truncation toward zero
CDiv(a, b) ==
    LET q == Abs(a) \div Abs(b)
    IN  IF (a < 0) = (b < 0) THEN q ELSE -q

\* std::vector<int>::resize(n): keep the first n entries, zero-fill new ones
Resize(v, n) == [i \in 1..n |-> IF i <= Len(v) THEN v[i] ELSE 0]

\* ---- accessors of CCDMultiTrack.h ----
\* number of tracks: the length of the start array
size(S) == Len(S)

\* start of track i; 0 when the start array has no entry i
TrackStart(S, i) == IF i <= Len(S) THEN S[i] ELSE 0

\* end of track i; defaults from the start when the end array has no entry i
TrackEnd(S, E, i) == IF i <= Len(E) THEN E[i] ELSE TrackStart(S, i)

\* height(i) = end[i] - start[i] + 1
TrackHeight(S, E, i) == TrackEnd(S, E, i) + 1 - TrackStart(S, i)

\* stored bin[i] if present, otherwise height(i) ("fully binned")
TrackBin(S, E, B, i) == IF i <= Len(B) THEN B[i] ELSE TrackHeight(S, E, i)

\* dataHeight(i) = height(i) / bin(i)
DataHeight(S, E, B, i) == CDiv(TrackHeight(S, E, i), TrackBin(S, E, B, i))

\* ---- CCDMultiTrack::DataHeight() : sum of DataHeight(i) over size() ----
RECURSIVE DataHeightSum(_, _, _, _)
DataHeightSum(S, E, B, n) ==
    IF n = 0 THEN 0
    ELSE DataHeightSum(S, E, B, n - 1) + DataHeight(S, E, B, n)

TotalDataHeight(S, E, B) == DataHeightSum(S, E, B, size(S))

\* ---- writeTrackStart, lines 38-47: resize, then validate-and-copy ----
\* vec is mTrackStart as the loop has left it so far; the ascending test
\* reads TrackStart(TrackNum - 1) from vec itself.
RECURSIVE StartLoopNonStrict(_, _, _)
StartLoopNonStrict(vec, value, i) ==
    IF i > Len(vec) THEN [vec |-> vec, ok |-> TRUE]
    ELSE IF value[i] < 1 THEN [vec |-> vec, ok |-> FALSE]
    ELSE IF i > 1 /\ value[i] < TrackStart(vec, i - 1)
         THEN [vec |-> vec, ok |-> FALSE]
    ELSE StartLoopNonStrict([vec EXCEPT ![i] = value[i]], value, i + 1)

RECURSIVE StartLoop(_, _, _)
StartLoop(vec, value, i) ==
    IF i > Len(vec) THEN [vec |-> vec, ok |-> TRUE]
    ELSE IF value[i] < 1 THEN [vec |-> vec, ok |-> FALSE]
    ELSE IF i > 1 /\ value[i] <= TrackStart(vec, i - 1)
         THEN [vec |-> vec, ok |-> FALSE]
    ELSE StartLoop([vec EXCEPT ![i] = value[i]], value, i + 1)

\* lines 48-51: the local vector TrackEnd
CandidateEndNoMinus(S, E) ==
    [i \in 1..Len(S) |-> TrackStart(S, i) + TrackHeight(S, E, i)]

CandidateEnd(S, E) ==
    [i \in 1..Len(S) |-> TrackStart(S, i) + TrackHeight(S, E, i) - 1]

\* lines 52-55 with the local vector sized by the stored bin array
CandidateBinLenB(S, E, B) == [i \in 1..Len(B) |-> TrackBin(S, E, B, i)]

\* lines 52-55: the local vector TrackBin
CandidateBin(S, E, B) == [i \in 1..Len(S) |-> TrackBin(S, E, B, i)]

\* a change notification (doCallbacksInt32Array) with the stored arrays as
\* they are at the moment it is emitted
Note(tag, data, S, E, B) ==
    [tag |-> tag, data |-> data, start |-> S, end |-> E, bin |-> B]

\* lines 59, 64, 87: &(v[0]) is evaluated for a changed vector v that is
\* empty (operator[] out of range)
NotifyEmpty(changed, v) == changed /\ v = <<>>

\* writeTrackStart with the callbacks issued whether or not the loop threw
writeTrackStartNotifyFirst(value) ==
    LET r  == StartLoop(Resize(mTrackStart, Len(value)), value, 1)
        S  == r.vec
        cE == CandidateEnd(S, mTrackEnd)
        cB == CandidateBin(S, mTrackEnd, mTrackBin)
        E  == IF mTrackEnd # cE THEN cE ELSE mTrackEnd
        n1 == IF mTrackEnd # cE
              THEN <<Note("end", cE, S, cE, mTrackBin)>> ELSE <<>>
        n2 == IF mTrackBin # cB
              THEN <<Note("bin", cB, S, E, cB)>> ELSE <<>>
    IN  /\ mTrackStart' = S
        /\ IF r.ok
           THEN /\ mTrackEnd' = E
                /\ mTrackBin' = (IF mTrackBin # cB THEN cB ELSE mTrackBin)
           ELSE UNCHANGED <<mTrackEnd, mTrackBin>>
        /\ notes' = n1 \o n2
        /\ last' = [op |-> "start", value |-> value, ok |-> r.ok]
        /\ calls' = calls + 1
        /\ aborted' = FALSE

writeTrackStart(value) ==
    LET r  == StartLoop(Resize(mTrackStart, Len(value)), value, 1)
        S  == r.vec
        cE == CandidateEnd(S, mTrackEnd)
        cB == CandidateBin(S, mTrackEnd, mTrackBin)
        E  == IF mTrackEnd # cE THEN cE ELSE mTrackEnd
        n1 == IF mTrackEnd # cE
              THEN <<Note("end", cE, S, cE, mTrackBin)>> ELSE <<>>
        n2 == IF mTrackBin # cB
              THEN <<Note("bin", cB, S, E, cB)>> ELSE <<>>
        ub59 == NotifyEmpty(mTrackEnd # cE, cE)
        ub64 == NotifyEmpty(mTrackBin # cB, cB)
    IN  /\ mTrackStart' = S
        /\ \/ \* the call throws, or runs to its end
              /\ IF r.ok
                 THEN /\ mTrackEnd' = E
                      /\ mTrackBin' =
                            (IF mTrackBin # cB THEN cB ELSE mTrackBin)
                      /\ notes' = n1 \o n2
                 ELSE /\ UNCHANGED <<mTrackEnd, mTrackBin>>
                      /\ notes' = <<>>
              /\ aborted' = FALSE
           \/ \* abort in mTrackEnd[0] at line 59, after line 58
              /\ r.ok /\ ub59
              /\ mTrackEnd' = cE
              /\ UNCHANGED mTrackBin
              /\ notes' = <<>>
              /\ aborted' = TRUE
           \/ \* abort in mTrackBin[0] at line 64, after line 63
              /\ r.ok /\ ~ub59 /\ ub64
              /\ mTrackEnd' = E
              /\ mTrackBin' = cB
              /\ notes' = n1
              /\ aborted' = TRUE
        /\ last' = [op |-> "start", value |-> value, ok |-> r.ok]
        /\ calls' = calls + 1

\* ---- writeTrackEnd, lines 70-79 ----
RECURSIVE EndLoopMin1(_, _, _, _)
EndLoopMin1(S, vec, value, i) ==
    IF i > Len(vec) THEN [vec |-> vec, ok |-> TRUE]
    ELSE IF value[i] < 1 THEN [vec |-> vec, ok |-> FALSE]
    ELSE IF i > 1 /\ value[i] <= TrackEnd(S, vec, i - 1)
         THEN [vec |-> vec, ok |-> FALSE]
    ELSE EndLoopMin1(S, [vec EXCEPT ![i] = value[i]], value, i + 1)

RECURSIVE EndLoop(_, _, _, _)
EndLoop(S, vec, value, i) ==
    IF i > Len(vec) THEN [vec |-> vec, ok |-> TRUE]
    ELSE IF value[i] < 2 THEN [vec |-> vec, ok |-> FALSE]
    ELSE IF i > 1 /\ value[i] <= TrackEnd(S, vec, i - 1)
         THEN [vec |-> vec, ok |-> FALSE]
    ELSE EndLoop(S, [vec EXCEPT ![i] = value[i]], value, i + 1)

\* lines 80-83 with the local vector sized by the start array
FullBinLenS(S, E) == [i \in 1..Len(S) |-> TrackHeight(S, E, i)]

\* lines 80-83: the local vector TrackBin
FullBin(S, E) == [i \in 1..Len(E) |-> TrackHeight(S, E, i)]

\* writeTrackEnd with the bin callback issued without the comparison
writeTrackEndAlwaysNotify(value) ==
    LET r  == EndLoop(mTrackStart, Resize(mTrackEnd, Len(value)), value, 1)
        E  == r.vec
        cB == FullBin(mTrackStart, E)
    IN  /\ mTrackEnd' = E
        /\ IF r.ok
           THEN /\ mTrackBin' = cB
                /\ notes' = <<Note("bin", cB, mTrackStart, E, cB)>>
           ELSE /\ UNCHANGED mTrackBin
                /\ notes' = <<>>
        /\ UNCHANGED mTrackStart
        /\ last' = [op |-> "end", value |-> value, ok |-> r.ok]
        /\ calls' = calls + 1
        /\ aborted' = FALSE

writeTrackEnd(value) ==
    LET r  == EndLoop(mTrackStart, Resize(mTrackEnd, Len(value)), value, 1)
        E  == r.vec
        cB == FullBin(mTrackStart, E)
        ub87 == NotifyEmpty(mTrackBin # cB, cB)
    IN  /\ mTrackEnd' = E
        /\ \/ \* the call throws, or runs to its end
              /\ IF r.ok
                 THEN /\ mTrackBin' =
                            (IF mTrackBin # cB THEN cB ELSE mTrackBin)
                      /\ notes' = IF mTrackBin # cB
                                  THEN <<Note("bin", cB, mTrackStart, E, cB)>>
                                  ELSE <<>>
                 ELSE /\ UNCHANGED mTrackBin
                      /\ notes' = <<>>
              /\ aborted' = FALSE
           \/ \* abort in mTrackBin[0] at line 87, after line 86
              /\ r.ok /\ ub87
              /\ mTrackBin' = cB
              /\ notes' = <<>>
              /\ aborted' = TRUE
        /\ UNCHANGED mTrackStart
        /\ last' = [op |-> "end", value |-> value, ok |-> r.ok]
        /\ calls' = calls + 1

\* ---- writeTrackBin, lines 93-102 ----
RECURSIVE BinLoopNoDiv(_, _, _, _, _)
BinLoopNoDiv(S, E, vec, value, i) ==
    IF i > Len(vec) THEN [vec |-> vec, ok |-> TRUE]
    ELSE IF value[i] < 1 THEN [vec |-> vec, ok |-> FALSE]
    ELSE BinLoopNoDiv(S, E, [vec EXCEPT ![i] = value[i]], value, i + 1)

RECURSIVE BinLoop(_, _, _, _, _)
BinLoop(S, E, vec, value, i) ==
    IF i > Len(vec) THEN [vec |-> vec, ok |-> TRUE]
    ELSE IF value[i] < 1 THEN [vec |-> vec, ok |-> FALSE]
    ELSE IF CRem(TrackHeight(S, E, i), value[i]) # 0
         THEN [vec |-> vec, ok |-> FALSE]
    ELSE BinLoop(S, E, [vec EXCEPT ![i] = value[i]], value, i + 1)

\* writeTrackBin followed by a bin callback when the loop did not throw
writeTrackBinNotify(value) ==
    LET r == BinLoop(mTrackStart, mTrackEnd,
                     Resize(mTrackBin, Len(value)), value, 1)
    IN  /\ mTrackBin' = r.vec
        /\ UNCHANGED <<mTrackStart, mTrackEnd>>
        /\ notes' = IF r.ok
                    THEN <<Note("bin", r.vec, mTrackStart, mTrackEnd, r.vec)>>
                    ELSE <<>>
        /\ last' = [op |-> "bin", value |-> value, ok |-> r.ok]
        /\ calls' = calls + 1
        /\ aborted' = FALSE

writeTrackBin(value) ==
    LET r == BinLoop(mTrackStart, mTrackEnd,
                     Resize(mTrackBin, Len(value)), value, 1)
    IN  /\ mTrackBin' = r.vec
        /\ UNCHANGED <<mTrackStart, mTrackEnd>>
        /\ notes' = <<>>
        /\ last' = [op |-> "bin", value |-> value, ok |-> r.ok]
        /\ calls' = calls + 1
        /\ aborted' = FALSE

\* ---- the constructor: three empty vectors ----
Init ==
    /\ mTrackStart = <<>>
    /\ mTrackEnd = <<>>
    /\ mTrackBin = <<>>
    /\ last = [op |-> "none", value |-> <<>>, ok |-> TRUE]
    /\ notes = <<>>
    /\ calls = 0
    /\ aborted = FALSE

\* no write is in progress: the driver serializes the calls
Idle == last.op = "none"

\* writeInt32Array dispatches one write to the matching writer
SetTrackStarts ==
    Idle /\ calls < MaxCalls /\ \E value \in Inputs : writeTrackStart(value)
SetTrackEnds ==
    Idle /\ calls < MaxCalls /\ \E value \in Inputs : writeTrackEnd(value)
SetTrackBins ==
    Idle /\ calls < MaxCalls /\ \E value \in Inputs : writeTrackBin(value)

\* writeInt32Array returns (or the exception leaves it): the argument array
\* and the delivered notifications go out of scope, the vectors stay; an
\* aborted process returns from nothing
Return ==
    /\ ~Idle /\ ~aborted
    /\ last' = [op |-> "none", value |-> <<>>, ok |-> TRUE]
    /\ notes' = <<>>
    /\ UNCHANGED <<mTrackStart, mTrackEnd, mTrackBin, calls, aborted>>

Next == SetTrackStarts \/ SetTrackEnds \/ SetTrackBins \/ Return

Spec == Init /\ [][Next]_vars

\* ---- vocabulary of the properties ----
\* the validating loop did not throw and the process was not aborted: the
\* call runs to its end and returns normally
Returned == last.ok /\ ~aborted

\* a write has just completed and was accepted (it returned normally)
Succeeded == last.op # "none" /\ Returned

\* b evenly divides h, with C's remainder; nothing is divisible by zero
Divisible(h, b) == b # 0 /\ CRem(h, b) = 0

StrictlyIncreasing(v) == \A i \in 2..Len(v) : v[i] > v[i - 1]

Ones(n) == [i \in 1..n |-> 1]

\* the three stored arrays are left exactly as they were by this step
ArraysUnchanged ==
    /\ mTrackStart' = mTrackStart
    /\ mTrackEnd' = mTrackEnd
    /\ mTrackBin' = mTrackBin

\* C1: a rejected setTrackStarts call leaves the stored start, end and bin
\* arrays (contents and lengths) exactly as they were before the call.
C1_RejectedStartsNoOp ==
    [][(last'.op = "start" /\ ~last'.ok) => ArraysUnchanged]_vars

\* C2: a rejected setTrackBins call performs no partial update: bin, start
\* and end are the same after the call as before it.
C2_RejectedBinsNoOp ==
    [][(last'.op = "bin" /\ ~last'.ok) => ArraysUnchanged]_vars

\* C3: a rejected setTrackEnds call leaves the stored start, end and bin
\* arrays exactly as they were before the call.
C3_RejectedEndsNoOp ==
    [][(last'.op = "end" /\ ~last'.ok) => ArraysUnchanged]_vars

\* C4: after every successful mutator call, every track's height
\* (end - start + 1) is evenly divisible by its bin.
C4_HeightDivisibleByBin ==
    Succeeded =>
        \A i \in 1..size(mTrackStart) :
            Divisible(TrackHeight(mTrackStart, mTrackEnd, i),
                      TrackBin(mTrackStart, mTrackEnd, mTrackBin, i))

\* C5: after every successful mutator call, end[i] >= start[i] for every
\* track i.
C5_EndNotBelowStart ==
    Succeeded =>
        \A i \in 1..size(mTrackStart) :
            TrackEnd(mTrackStart, mTrackEnd, i) >= TrackStart(mTrackStart, i)

\* C6: after every successful mutator call, every stored bin entry is >= 1,
\* whether written by setTrackBins or derived by setTrackEnds/setTrackStarts.
C6_BinAtLeastOne ==
    Succeeded => \A i \in 1..Len(mTrackBin) : mTrackBin[i] >= 1

\* the stored end array is >= 2 everywhere and strictly increasing
EndArrayValid ==
    /\ \A i \in 1..Len(mTrackEnd) : mTrackEnd[i] >= 2
    /\ StrictlyIncreasing(mTrackEnd)

\* C7 (as stated): after every successful mutator call of any kind, the
\* stored end array is >= 2 everywhere and strictly increasing.
C7_EndValidAfterAnySuccess == Succeeded => EndArrayValid

\* C7 (amended): after every successful setTrackEnds call, the stored end
\* array is >= 2 everywhere and strictly increasing.
C7_EndValidAfterSetEnds == (last.op = "end" /\ Returned) => EndArrayValid

\* a setTrackEnds call with two values was accepted
C7_Witness == last.op = "end" /\ Returned /\ Len(mTrackEnd) = 2

\* C8: after every successful mutator call of any kind, in any sequence of
\* successful and rejected calls, the stored start array is >= 1 everywhere
\* and strictly increasing.
C8_StartValidAfterAnySuccess ==
    Succeeded =>
        /\ \A i \in 1..Len(mTrackStart) : mTrackStart[i] >= 1
        /\ StrictlyIncreasing(mTrackStart)

\* C9: every change notification emitted during a call is emitted when all
\* three stored arrays already hold the values they have when the call
\* returns.
C9_NotificationsSeeFinalState ==
    \A k \in 1..Len(notes) :
        /\ notes[k].start = mTrackStart
        /\ notes[k].end = mTrackEnd
        /\ notes[k].bin = mTrackBin

\* C10: on a freshly constructed configurator, a successful setTrackStarts
\* with n values s yields end = s and bin = n ones, so every track has
\* height 1 and data height 1, and the total data height is n.
C10_StartsOnlyGivesUnitTracks ==
    (calls = 1 /\ last.op = "start" /\ Returned) =>
        /\ mTrackStart = last.value
        /\ mTrackEnd = last.value
        /\ mTrackBin = Ones(Len(last.value))
        /\ \A i \in 1..Len(last.value) :
              /\ TrackHeight(mTrackStart, mTrackEnd, i) = 1
              /\ DataHeight(mTrackStart, mTrackEnd, mTrackBin, i) = 1
        /\ TotalDataHeight(mTrackStart, mTrackEnd, mTrackBin)
              = Len(last.value)

\* the first call ever made was an accepted setTrackStarts with two values
C10_Witness ==
    calls = 1 /\ last.op = "start" /\ Returned /\ Len(last.value) = 2

\* C11: after a successful setTrackEnds with n values on a configurator
\* holding n starts, bin[i] = end[i] - start[i] + 1 for every i and the data
\* height of every track is defined and equal to 1 (fully binned).
C11_EndsGiveFullyBinnedTracks ==
    (last.op = "end" /\ Returned /\ Len(mTrackStart) = Len(last.value)) =>
        /\ Len(mTrackBin) = Len(last.value)
        /\ \A i \in 1..Len(last.value) :
              /\ mTrackBin[i] = mTrackEnd[i] - mTrackStart[i] + 1
              /\ mTrackBin[i] # 0
              /\ DataHeight(mTrackStart, mTrackEnd, mTrackBin, i) = 1

\* the values a setTrackBins call must accept, judged against the stored
\* start and end arrays S and E
BinsAcceptable(S, E, b) ==
    \A i \in 1..Len(b) :
        /\ b[i] >= 1
        /\ (E[i] - S[i] + 1) % b[i] = 0

RECURSIVE SumOfQuotients(_, _, _, _)
SumOfQuotients(S, E, b, n) ==
    IF n = 0 THEN 0
    ELSE SumOfQuotients(S, E, b, n - 1) + CDiv(E[n] - S[n] + 1, b[n])

\* C12: with n starts and n ends stored, setTrackBins with n values b is
\* accepted exactly when every b[i] >= 1 divides end[i] - start[i] + 1; when
\* accepted the stored bin equals b, the data height of track i is
\* (end[i] - start[i] + 1) / b[i] and the total data height is their sum.
C12_BinsAcceptedIffDivisors ==
    (/\ last.op = "bin"
     /\ Len(mTrackStart) = Len(last.value)
     /\ Len(mTrackEnd) = Len(last.value)) =>
        /\ Returned <=> BinsAcceptable(mTrackStart, mTrackEnd, last.value)
        /\ Returned =>
              /\ mTrackBin = last.value
              /\ \A i \in 1..Len(last.value) :
                    DataHeight(mTrackStart, mTrackEnd, mTrackBin, i)
                        = CDiv(mTrackEnd[i] - mTrackStart[i] + 1,
                               last.value[i])
              /\ TotalDataHeight(mTrackStart, mTrackEnd, mTrackBin)
                    = SumOfQuotients(mTrackStart, mTrackEnd, last.value,
                                     Len(last.value))

\* a setTrackBins call with two values, one of them a proper divisor (> 1)
\* of its track height, was accepted on two stored tracks
C12_Witness ==
    /\ last.op = "bin" /\ Returned
    /\ Len(last.value) = 2
    /\ Len(mTrackStart) = 2 /\ Len(mTrackEnd) = 2
    /\ \E i \in 1..2 :
          mTrackBin[i] > 1 /\ mTrackEnd[i] - mTrackStart[i] + 1 > 1

\* C13: after a successful setTrackStarts, every track that had an end
\* before the call keeps its height: its stored end is
\* new_start[i] + old_height(i) - 1.
C13_StartsMoveKeepsHeight ==
    [][(last'.op = "start" /\ Returned') =>
          \A i \in 1..Len(last'.value) :
              i <= Len(mTrackEnd) =>
                  mTrackEnd'[i] = last'.value[i]
                      + TrackHeight(mTrackStart, mTrackEnd, i) - 1]_vars

\* C14: after a successful setTrackStarts with n values, whatever was
\* stored before, the start, end and bin arrays all have length n and the
\* track count is n.
C14_StartsSetAllLengths ==
    (last.op = "start" /\ Returned) =>
        /\ Len(mTrackStart) = Len(last.value)
        /\ Len(mTrackEnd) = Len(last.value)
        /\ Len(mTrackBin) = Len(last.value)
        /\ size(mTrackStart) = Len(last.value)

\* an accepted setTrackStarts with one value truncated a longer end array:
\* the end was notified as changed although its first entry was a kept old
\* end (it differs from the start), so entries beyond the first were dropped
C14_Witness ==
    /\ last.op = "start" /\ Returned
    /\ Len(last.value) = 1
    /\ Len(notes) > 0 /\ notes[1].tag = "end"
    /\ mTrackEnd[1] # mTrackStart[1]

\* the idle state is as an accepted setTrackEnds left it: a valid end array
\* and bin[i] = height(i) for each of its entries
AsSetEndsLeftIt ==
    /\ EndArrayValid
    /\ Len(mTrackBin) = Len(mTrackEnd)
    /\ \A i \in 1..Len(mTrackEnd) :
          mTrackBin[i] = mTrackEnd[i] + 1 - TrackStart(mTrackStart, i)

\* C15: a notification is emitted only for an array whose stored contents
\* changed by value in this call, and carries the newly stored array; an
\* accepted setTrackEnds leaves end = input and bin = heights, and repeating
\* it with the same array on that state is accepted, emits nothing and
\* leaves all three arrays as they were.
C15_NotifyOnlyOnChange ==
    [][/\ \A k \in 1..Len(notes') :
             /\ notes'[k].tag = "end" =>
                   mTrackEnd' # mTrackEnd /\ notes'[k].data = mTrackEnd'
             /\ notes'[k].tag = "bin" =>
                   mTrackBin' # mTrackBin /\ notes'[k].data = mTrackBin'
       /\ (last'.op = "end" /\ Returned') =>
             mTrackEnd' = last'.value /\ AsSetEndsLeftIt'
       /\ (last'.op = "end" /\ last'.value = mTrackEnd /\ AsSetEndsLeftIt) =>
             Returned' /\ notes' = <<>> /\ ArraysUnchanged]_vars

\* the second of two consecutive accepted setTrackEnds calls with the same
\* two values, on two stored starts, has completed without a notification
\* (a bin above 1 was already the height before this call)
C15_Witness ==
    /\ calls = 3 /\ Len(mTrackStart) = 2 /\ mTrackStart[1] >= 1
    /\ last.op = "end" /\ Returned
    /\ Len(last.value) = 2
    /\ mTrackBin[1] > 1
    /\ notes = <<>>

\* C16 (as stated): after every successful mutator call with count n, the
\* stored start, end and bin arrays all have length n.
C16_AllLengthsAfterAnySuccess ==
    Succeeded =>
        /\ Len(mTrackStart) = Len(last.value)
        /\ Len(mTrackEnd) = Len(last.value)
        /\ Len(mTrackBin) = Len(last.value)

\* C16 (amended): after a successful call with count n, the arrays that
\* call writes have length n: start, end and bin after setTrackStarts, end
\* and bin after setTrackEnds, bin after setTrackBins.
C16_WrittenLengthsAfterSuccess ==
    Succeeded =>
        /\ Len(mTrackBin) = Len(last.value)
        /\ last.op \in {"start", "end"} => Len(mTrackEnd) = Len(last.value)
        /\ last.op = "start" => Len(mTrackStart) = Len(last.value)

\* an accepted setTrackEnds wrote two ends while another number of starts
\* is stored
C16_Witness ==
    /\ last.op = "end" /\ Returned
    /\ Len(last.value) = 2
    /\ Len(mTrackStart) # 2

\* C17: a call that ends in a validation error has emitted no change
\* notification.
C17_RejectedEmitsNothing ==
    (last.op # "none" /\ ~last.ok) => notes = <<>>

\* a setTrackStarts with two values was rejected while one end is stored,
\* where an accepted call would have changed the end array
C17_Witness ==
    /\ last.op = "start" /\ ~last.ok
    /\ Len(last.value) = 2
    /\ Len(mTrackEnd) = 1

\* every value is >= lo and greater than the value before it
AscendingFrom(v, lo) ==
    \A i \in 1..Len(v) : v[i] >= lo /\ (i > 1 => v[i] > v[i - 1])

\* C18: in every reachable state a setTrackStarts call is accepted (its
\* validation does not throw) exactly when every incoming value is >= 1 and
\* greater than the incoming value before it, and on acceptance the stored
\* start array equals the input.
C18_StartsAcceptedIffValidInput ==
    last.op = "start" =>
        /\ last.ok <=> AscendingFrom(last.value, 1)
        /\ last.ok => mTrackStart = last.value

\* a setTrackStarts with two values was accepted after a rejected
\* setTrackEnds had left a zero-filled end entry behind
C18_Witness ==
    /\ last.op = "start" /\ Returned
    /\ Len(last.value) = 2
    /\ \E i \in 1..Len(mTrackEnd) : mTrackEnd[i] = 0

\* C19: a successful setTrackBins call leaves the stored start and end
\* arrays as they were and emits no change notification.
C19_BinsTouchOnlyBin ==
    [][(last'.op = "bin" /\ Returned') =>
          /\ mTrackStart' = mTrackStart
          /\ mTrackEnd' = mTrackEnd
          /\ notes' = <<>>]_vars

\* a setTrackBins call with two values was accepted and stored a bin that
\* differs from the track height the earlier derivation had left
C19_Witness ==
    /\ last.op = "bin" /\ Returned
    /\ Len(last.value) = 2
    /\ Len(mTrackStart) = 2 /\ Len(mTrackEnd) = 2
    /\ \E i \in 1..2 :
          mTrackBin[i] # TrackHeight(mTrackStart, mTrackEnd, i)

\* C20: no setTrackEnds call, accepted or rejected, changes the stored start
\* array, and the call is accepted (its validation does not throw) exactly
\* when every incoming value is >= 2 and greater than the incoming value
\* before it.
C20_EndsLeaveStartsAlone ==
    [][last'.op = "end" =>
          /\ mTrackStart' = mTrackStart
          /\ last'.ok <=> AscendingFrom(last'.value, 2)]_vars

\* a setTrackEnds call was accepted although its first end lies below the
\* first of the validly stored starts
C20_Witness ==
    /\ last.op = "end" /\ Returned
    /\ Len(last.value) >= 1 /\ Len(mTrackStart) >= 1
    /\ AscendingFrom(mTrackStart, 1)
    /\ mTrackEnd[1] < mTrackStart[1]

====
